---- MODULE Spec2Model ----
(***************************************************************************)
(* A model of combine_rss.py: the script reads the feeds of RSS_URLS in    *)
(* order, collects every entry that has a link, sorts the collected        *)
(* entries by published_dt (newest first), keeps the first MAX_ITEMS,      *)
(* fetches the archive page of each kept item in a thread pool, builds an  *)
(* RSS document and writes it to OUTPUT_FILE.                              *)
(*                                                                         *)
(* Strings of the program are TLA+ strings, None is the string "<None>",   *)
(* an absent date (published_parsed / updated_parsed) is 0 and a           *)
(* timestamp is a positive integer.                                        *)
(***************************************************************************)
EXTENDS Integers, Sequences, FiniteSets, TLC

\* ---- bounds of the model ----
\* RSS_URLS has 9 URLs in the source; the model reads NumFeeds of them.
NumFeeds == 2
\* The most entries all feeds of one run deliver together.
MaxEntries == 3
\* MAX_ITEMS is 20 in the source; the model keeps fewer, so that the slice
\* drops entries within MaxEntries entries.
MAX_ITEMS == 2

\* ---- program constants ----
\* MAX_WORKERS is 6 in the source; the model's pool has 2 threads, so that
\* two fetches run at once and a third waits for a thread.
MAX_WORKERS == 2
RETRY_COUNT == 2
ARCHIVE_PREFIX == "https://archive.is/o/nuunc/"

None == "<None>"
RSS_URLS == [i \in 1..NumFeeds |-> <<"rss.xml", i>>]

\* ---- inputs: what the feeds deliver ----
\* The entries a parsed feed may hold: linked entries that share a link, that
\* share a timestamp, that take their date from published, from updated or
\* from the clock, and entries whose link is absent or empty.
RawEntries ==
  { [link |-> "a", title |-> "A", summary |-> "sa", description |-> "", published |-> 2, updated |-> 1],
    [link |-> "a", title |-> None, summary |-> "", description |-> "da", published |-> 0, updated |-> 1],
    [link |-> "b", title |-> "B", summary |-> None, description |-> None, published |-> 0, updated |-> 0],
    [link |-> None, title |-> "N", summary |-> "sn", description |-> "", published |-> 2, updated |-> 0],
    [link |-> "", title |-> "E", summary |-> "", description |-> "", published |-> 1, updated |-> 0] }

RECURSIVE SeqsUpTo(_, _)
SeqsUpTo(S, n) ==
  IF n = 0 THEN {<<>>}
  ELSE LET shorter == SeqsUpTo(S, n - 1)
       IN shorter \cup { Append(s, x) : s \in { t \in shorter : Len(t) = n - 1 }, x \in S }

\* ---- helpers ----
\* not x, for a string or None, and for a parsed date or None
Falsy(x) == x = None \/ x = ""
NoDate(d) == d = 0

\* getattr(entry, name, default): an absent attribute is None in the model.
GetAttr(v, default) == IF v = None THEN default ELSE v

\* a or b
Or(a, b) == IF Falsy(a) THEN b ELSE a

parse_entry_datetime(entry, now) ==
  IF ~NoDate(entry.published) THEN entry.published
  ELSE IF ~NoDate(entry.updated) THEN entry.updated
  ELSE now

\* True when parse_entry_datetime reads the clock.
ReadsClock(entry) == NoDate(entry.published) /\ NoDate(entry.updated)

format_rfc2822(dt) == <<"RFC-2822", dt>>

\* The dict appended to all_entries; oid is the identity of the dict object
\* (its ordinal of creation), which Python keeps through sort and slice.
NewEntry(entry, now, oid) ==
  [ title |-> GetAttr(entry.title, "Untitled"),
    orig_link |-> entry.link,
    archive_link |-> ARCHIVE_PREFIX \o entry.link,
    summary |-> Or(GetAttr(entry.summary, ""), GetAttr(entry.description, "")),
    published_dt |-> parse_entry_datetime(entry, now),
    full_html |-> <<>>,
    oid |-> oid ]

\* A sort that puts an entry before the entries of equal key.
RECURSIVE InsertDesc_TiesSwapped(_, _)
InsertDesc_TiesSwapped(sorted, x) ==
  IF sorted = <<>> THEN <<x>>
  ELSE IF Head(sorted).published_dt > x.published_dt
       THEN <<Head(sorted)>> \o InsertDesc_TiesSwapped(Tail(sorted), x)
       ELSE <<x>> \o sorted

\* list.sort(key=published_dt, reverse=True): a stable insertion of each
\* element after every element whose key is greater or equal.
RECURSIVE InsertDesc(_, _)
InsertDesc(sorted, x) ==
  IF sorted = <<>> THEN <<x>>
  ELSE IF Head(sorted).published_dt >= x.published_dt
       THEN <<Head(sorted)>> \o InsertDesc(Tail(sorted), x)
       ELSE <<x>> \o sorted

\* No sort at all.
SortDesc_Unsorted(s) == s

RECURSIVE SortDesc(_)
SortDesc(s) ==
  IF s = <<>> THEN <<>>
  ELSE InsertDesc(SortDesc(SubSeq(s, 1, Len(s) - 1)), s[Len(s)])

\* s[:n]
Slice(s, n) == SubSeq(s, 1, IF Len(s) < n THEN Len(s) ELSE n)

\* ---- the content fetcher ----
\* What requests.get raises, or raise_for_status for an HTTP error status.
Exceptions == {"ConnectionError", "HTTPError"}

\* The pages a successful request returns: which containers the parsed page
\* has (with text), and what the request for the iframe's src gives.
Responses ==
  { [article |-> TRUE, iframe |-> "none", snapshot |-> FALSE, body |-> TRUE],
    [article |-> FALSE, iframe |-> "fails", snapshot |-> FALSE, body |-> TRUE] }

\* The extraction of fetch_archive_full_html, in the order of the code; the
\* fragment returned is named by the container and the page it came from.
Extract(r, archive_url) ==
  IF r.article THEN <<"article", archive_url>>
  ELSE IF r.iframe \notin {"none", "fails", "empty"} THEN <<"iframe", archive_url>>
  ELSE IF r.snapshot THEN <<"snapshot", archive_url>>
  ELSE IF r.body THEN <<"body", archive_url>>
  ELSE <<"raw", archive_url>>

\* The string returned when every attempt failed.
Placeholder(archive_url, last_exc) ==
  <<"<!-- Failed to fetch archive content", archive_url, last_exc, "-->Full text not available.">>

IsPlaceholder(html) == Len(html) = 4 /\ html[4] = "-->Full text not available."

NewFuture(archive_url) ==
  [ url |-> archive_url, state |-> "queued", attempt |-> 0, last_exc |-> None,
    result |-> <<>>, yielded |-> FALSE ]

\* ---- the writer ----
DefaultHtml == <<"Full text not available.">>

\* it.get("full_html", "Full text not available.")
GetFullHtml(it) == IF it.full_html = <<>> THEN DefaultHtml ELSE it.full_html

\* An <item> element whose link is the original link.
ItemElement_RawLink(it) ==
  [ title |-> it.title,
    link |-> it.orig_link,
    guid |-> it.orig_link,
    description |-> it.summary,
    pubDate |-> format_rfc2822(it.published_dt),
    content |-> GetFullHtml(it) ]

\* The <item> element built for one selected dict.
ItemElement(it) ==
  [ title |-> it.title,
    link |-> it.archive_link,
    guid |-> it.orig_link,
    description |-> it.summary,
    pubDate |-> format_rfc2822(it.published_dt),
    content |-> GetFullHtml(it) ]

\* doc.toxml: the channel head, the items in order, the closing tags.
ChannelHead == [chunk |-> "<rss><channel>title link description"]
ChannelEnd == [chunk |-> "</channel></rss>"]
ToXml(d) == <<ChannelHead>> \o d \o <<ChannelEnd>>

\* What OUTPUT_FILE holds before the run.
PreviousContent == <<[chunk |-> "previous combined.xml"]>>

VARIABLES
  pc,           \* position of the main thread
  feed_idx,     \* index into RSS_URLS of the feed being read
  feed,         \* feed.entries of the feed parsed last
  entry_idx,    \* index into feed of the entry being read
  all_entries,  \* the collected dicts
  selected,     \* all_entries[:MAX_ITEMS]
  clock,        \* datetime.now()
  feeds,        \* log of what each feed delivered: [ok, entries]
  futures,      \* the futures of the pool, in order of submission
  future_map,   \* future -> index in selected of the item it was submitted for
  doc,          \* the <item> elements of the document
  xml_bytes,    \* doc.toxml(...)
  output_file   \* the content of OUTPUT_FILE on disk

vars == <<pc, feed_idx, feed, entry_idx, all_entries, selected, clock, feeds,
          futures, future_map, doc, xml_bytes, output_file>>

collectVars == <<feed_idx, feed, entry_idx, all_entries, clock, feeds>>
poolVars == <<futures, future_map>>
writeVars == <<doc, xml_bytes, output_file>>

DeliveredSoFar ==
  LET RECURSIVE Sum(_)
      Sum(i) == IF i = 0 THEN 0 ELSE Len(feeds[i].entries) + Sum(i - 1)
  IN Sum(Len(feeds))

Init ==
  /\ pc = "parse"
  /\ feed_idx = 1
  /\ feed = <<>>
  /\ entry_idx = 1
  /\ all_entries = <<>>
  /\ selected = <<>>
  /\ clock = 2    \* the run starts at the newest date the feeds carry
  /\ feeds = <<>>
  /\ futures = <<>>
  /\ future_map = <<>>
  /\ doc = <<>>
  /\ xml_bytes = <<>>
  /\ output_file = PreviousContent

\* feed = feedparser.parse(feed_url) returns.
ParseFeed ==
  /\ pc = "parse"
  /\ feed_idx <= Len(RSS_URLS)
  /\ \E es \in SeqsUpTo(RawEntries, MaxEntries - DeliveredSoFar) :
        /\ feed' = es
        /\ feeds' = Append(feeds, [ok |-> TRUE, entries |-> es])
  /\ entry_idx' = 1
  /\ pc' = "entries"
  /\ UNCHANGED <<feed_idx, all_entries, selected, clock, poolVars, writeVars>>

\* feedparser.parse raises and the loop over RSS_URLS is left.
ParseFeedFails_Abort ==
  /\ pc = "parse"
  /\ feed_idx <= Len(RSS_URLS)
  /\ feeds' = Append(feeds, [ok |-> FALSE, entries |-> <<>>])
  /\ feed_idx' = Len(RSS_URLS) + 1
  /\ UNCHANGED <<pc, feed, entry_idx, all_entries, selected, clock, poolVars, writeVars>>

\* feedparser.parse raises: the message is printed, continue.
ParseFeedFails ==
  /\ pc = "parse"
  /\ feed_idx <= Len(RSS_URLS)
  /\ feeds' = Append(feeds, [ok |-> FALSE, entries |-> <<>>])
  /\ feed_idx' = feed_idx + 1
  /\ UNCHANGED <<pc, feed, entry_idx, all_entries, selected, clock, poolVars, writeVars>>

\* An entry without a link ends the loop over feed.entries (break).
SkipEntry_Break ==
  /\ pc = "entries"
  /\ entry_idx <= Len(feed)
  /\ Falsy(feed[entry_idx].link)
  /\ entry_idx' = Len(feed) + 1
  /\ UNCHANGED <<pc, feed_idx, feed, all_entries, selected, clock, feeds, poolVars, writeVars>>

\* One pass of the loop over feed.entries for an entry without a link.
SkipEntry ==
  /\ pc = "entries"
  /\ entry_idx <= Len(feed)
  /\ Falsy(feed[entry_idx].link)
  /\ entry_idx' = entry_idx + 1
  /\ UNCHANGED <<pc, feed_idx, feed, all_entries, selected, clock, feeds, poolVars, writeVars>>

\* One pass of the loop over feed.entries for an entry with a link.
CollectEntry ==
  /\ pc = "entries"
  /\ entry_idx <= Len(feed)
  /\ ~Falsy(feed[entry_idx].link)
  /\ all_entries' = Append(all_entries,
                           NewEntry(feed[entry_idx], clock, Len(all_entries) + 1))
  /\ clock' = IF ReadsClock(feed[entry_idx]) THEN clock + 1 ELSE clock
  /\ entry_idx' = entry_idx + 1
  /\ UNCHANGED <<pc, feed_idx, feed, selected, feeds, poolVars, writeVars>>

\* The loop over feed.entries ends: next feed.
NextFeed ==
  /\ pc = "entries"
  /\ entry_idx > Len(feed)
  /\ feed_idx' = feed_idx + 1
  /\ pc' = "parse"
  /\ UNCHANGED <<feed, entry_idx, all_entries, selected, clock, feeds, poolVars, writeVars>>

\* The loop over RSS_URLS ends: sort and slice. feed, entry_idx and the log
\* are not read after the loop, and the model forgets them here.
SortAndSelect ==
  /\ pc = "parse"
  /\ feed_idx > Len(RSS_URLS)
  /\ all_entries' = SortDesc(all_entries)
  /\ selected' = Slice(SortDesc(all_entries), MAX_ITEMS)
  /\ pc' = "submit"
  /\ feed' = <<>>
  /\ entry_idx' = 1
  /\ feeds' = <<>>
  /\ UNCHANGED <<feed_idx, clock, poolVars, writeVars>>

\* ---- the fetch phase ----
Running == { f \in 1..Len(futures) : futures[f].state = "running" }
Queued == { f \in 1..Len(futures) : futures[f].state = "queued" }

\* future = ex.submit(fetch_archive_full_html, item["archive_link"]);
\* future_map[future] = item
Submit ==
  /\ pc = "submit"
  /\ Len(futures) < Len(selected)
  /\ LET i == Len(futures) + 1
     IN /\ futures' = Append(futures, NewFuture(selected[i].archive_link))
        /\ future_map' = Append(future_map, i)
  /\ UNCHANGED <<pc, selected, collectVars, writeVars>>

\* The loop over selected ends: as_completed(future_map) starts.
AllSubmitted ==
  /\ pc = "submit"
  /\ Len(futures) = Len(selected)
  /\ pc' = "as_completed"
  /\ UNCHANGED <<selected, collectVars, poolVars, writeVars>>

\* An idle worker thread takes the oldest queued call.
WorkerStart(f) ==
  /\ f \in Queued
  /\ \A g \in Queued : f <= g
  /\ Cardinality(Running) < MAX_WORKERS
  /\ futures' = [futures EXCEPT ![f].state = "running"]
  /\ UNCHANGED <<pc, selected, future_map, collectVars, writeVars>>

\* One pass of the retry loop returns a fragment of the page.
AttemptSucceeds(f, r) ==
  /\ f \in Running
  /\ futures[f].attempt < RETRY_COUNT
  /\ futures' = [futures EXCEPT ![f] =
        [futures[f] EXCEPT !.state = "finished",
                           !.result = Extract(r, futures[f].url),
                           !.attempt = 0,
                           !.last_exc = None]]
  /\ UNCHANGED <<pc, selected, future_map, collectVars, writeVars>>

\* The first failed attempt returns the placeholder.
AttemptFails_NoRetry(f, e) ==
  /\ f \in Running
  /\ futures[f].attempt < RETRY_COUNT
  /\ futures' = [futures EXCEPT ![f] =
        [futures[f] EXCEPT !.state = "finished",
                           !.result = Placeholder(futures[f].url, e),
                           !.attempt = 0,
                           !.last_exc = None]]
  /\ UNCHANGED <<pc, selected, future_map, collectVars, writeVars>>

\* A failed attempt is not counted: the loop retries until a request succeeds.
AttemptFails_RetryForever(f, e) ==
  /\ f \in Running
  /\ futures[f].attempt < RETRY_COUNT
  /\ futures' = [futures EXCEPT ![f].last_exc = e]
  /\ UNCHANGED <<pc, selected, future_map, collectVars, writeVars>>

\* One pass of the retry loop ends in the except clause: last_exc = e, sleep;
\* after the last pass the placeholder is returned.
AttemptFails(f, e) ==
  /\ f \in Running
  /\ futures[f].attempt < RETRY_COUNT
  /\ futures' = [futures EXCEPT ![f] =
        IF futures[f].attempt + 1 < RETRY_COUNT
        THEN [futures[f] EXCEPT !.attempt = futures[f].attempt + 1,
                                !.last_exc = e]
        ELSE [futures[f] EXCEPT !.state = "finished",
                                !.result = Placeholder(futures[f].url, e),
                                     !.attempt = 0,
                                !.last_exc = None]]
  /\ UNCHANGED <<pc, selected, future_map, collectVars, writeVars>>

\* The results are stored in the items in the order of completion.
Reattach_InCompletionOrder(f) ==
  /\ pc = "as_completed"
  /\ f \in 1..Len(futures)
  /\ futures[f].state = "finished"
  /\ ~futures[f].yielded
  /\ LET n == Cardinality({ g \in 1..Len(futures) : futures[g].yielded })
     IN selected' = [selected EXCEPT ![n + 1].full_html = futures[f].result]
  /\ futures' = [futures EXCEPT ![f].yielded = TRUE]
  /\ UNCHANGED <<pc, future_map, collectVars, writeVars>>

\* One pass of the loop over as_completed(future_map): a finished future is
\* yielded and its result is stored in the item future_map holds for it.
\* (fetch_archive_full_html returns in every case, so future.result() does
\* not raise.) The dict is shared with all_entries; the model shows the new
\* key in selected only, and all_entries keeps the dicts as collected.
Reattach(f) ==
  /\ pc = "as_completed"
  /\ f \in 1..Len(futures)
  /\ futures[f].state = "finished"
  /\ ~futures[f].yielded
  /\ selected' = [selected EXCEPT ![future_map[f]].full_html = futures[f].result]
  /\ futures' = [futures EXCEPT ![f].yielded = TRUE]
  /\ UNCHANGED <<pc, future_map, collectVars, writeVars>>

\* as_completed is exhausted and the with block shuts the pool down; the
\* <item> elements are built from selected.
BuildDoc ==
  /\ pc = "as_completed"
  /\ \A f \in 1..Len(futures) : futures[f].yielded
  /\ doc' = [i \in 1..Len(selected) |-> ItemElement(selected[i])]
  /\ pc' = "toxml"
  /\ UNCHANGED <<selected, collectVars, poolVars, xml_bytes, output_file>>

\* ---- write to file ----
\* xml_bytes = doc.toxml(encoding="utf-8")
Serialize ==
  /\ pc = "toxml"
  /\ xml_bytes' = ToXml(doc)
  /\ pc' = "open"
  /\ UNCHANGED <<selected, collectVars, poolVars, doc, output_file>>

\* open(OUTPUT_FILE, "wb") truncates the file.
OpenFile ==
  /\ pc = "open"
  /\ output_file' = <<>>
  /\ pc' = "write"
  /\ UNCHANGED <<selected, collectVars, poolVars, doc, xml_bytes>>

\* f.write(xml_bytes) writes everything; Done is printed.
WriteFile ==
  /\ pc = "write"
  /\ output_file' = xml_bytes
  /\ pc' = "done"
  /\ UNCHANGED <<selected, collectVars, poolVars, doc, xml_bytes>>

\* An output-write failure: toxml or open raises, or f.write raises after n
\* chunks reached the file. The exception is not caught: the run ends.
WriteFailure ==
  /\ \/ /\ pc \in {"toxml", "open"}
        /\ UNCHANGED output_file
     \/ /\ pc = "write"
        /\ \E n \in 0..(Len(xml_bytes) - 1) : output_file' = SubSeq(xml_bytes, 1, n)
  /\ pc' = "failed"
  /\ UNCHANGED <<selected, collectVars, poolVars, doc, xml_bytes>>

Next ==
  \/ ParseFeed
  \/ ParseFeedFails
  \/ SkipEntry
  \/ CollectEntry
  \/ NextFeed
  \/ SortAndSelect
  \/ Submit
  \/ AllSubmitted
  \/ \E f \in 1..MAX_ITEMS : WorkerStart(f)
  \/ \E f \in 1..MAX_ITEMS, r \in Responses : AttemptSucceeds(f, r)
  \/ \E f \in 1..MAX_ITEMS, e \in Exceptions : AttemptFails(f, e)
  \/ \E f \in 1..MAX_ITEMS : Reattach(f)
  \/ BuildDoc
  \/ Serialize
  \/ OpenFile
  \/ WriteFile
  \/ WriteFailure

Spec == Init /\ [][Next]_vars

\* The main thread and the pool's threads keep running, and every request
\* ends (REQUEST_TIMEOUT): a step that can be taken is taken.
FairSpec == Spec /\ WF_vars(Next)

\* ---- definitions the properties share ----
Collecting == pc \in {"parse", "entries"}
PoolDone == pc \in {"toxml", "open", "write", "done", "failed"}
DocBuilt == pc \in {"toxml", "open", "write", "done"}

Range(s) == { s[i] : i \in 1..Len(s) }

RECURSIVE Flatten(_)
Flatten(ss) == IF ss = <<>> THEN <<>> ELSE Head(ss) \o Flatten(Tail(ss))

RECURSIVE Linked(_)
Linked(es) ==
  IF es = <<>> THEN <<>>
  ELSE IF Falsy(Head(es).link) THEN Linked(Tail(es))
       ELSE <<Head(es)>> \o Linked(Tail(es))

\* The raw entries the loops have passed so far, in feed processing order:
\* every logged feed in full, except the one being read, of which the
\* entries before entry_idx.
Processed ==
  IF pc = "entries"
  THEN Flatten([i \in 1..(Len(feeds) - 1) |-> feeds[i].entries]) \o SubSeq(feed, 1, entry_idx - 1)
  ELSE Flatten([i \in 1..Len(feeds) |-> feeds[i].entries])

Dropped == { e \in Range(all_entries) : \A i \in 1..Len(selected) : selected[i].oid # e.oid }

\* The dict as it was collected, before the fetch phase touched it.
Collected(oid) == CHOOSE e \in Range(all_entries) : e.oid = oid

OutputItems == SubSeq(output_file, 2, Len(output_file) - 1)

\* ---- C1 ----
\* C1: no two selected items (and so no two output items) have the same
\* original link.
C1_SelectedLinksUnique ==
  \A i, j \in 1..Len(selected) :
     i # j => selected[i].orig_link # selected[j].orig_link

\* ---- C2 ----
\* C2: once the entries are sorted and sliced, at most MAX_ITEMS items are
\* selected and written, each item's published_dt is at least that of the
\* item after it, and no dropped entry is newer than a kept one.
C2_NewestKeptInOrder ==
  ~Collecting =>
     /\ Len(selected) <= MAX_ITEMS
     /\ \A i \in 1..(Len(selected) - 1) :
           selected[i].published_dt >= selected[i + 1].published_dt
     /\ \A d \in Dropped : \A i \in 1..Len(selected) :
           d.published_dt <= selected[i].published_dt
     /\ DocBuilt =>
           /\ Len(doc) <= MAX_ITEMS
           /\ \A i \in 1..(Len(doc) - 1) : doc[i].pubDate[2] >= doc[i + 1].pubDate[2]
           /\ \A d \in Dropped : \A i \in 1..Len(doc) : d.published_dt <= doc[i].pubDate[2]
     /\ pc = "done" => Len(OutputItems) <= MAX_ITEMS /\ OutputItems = doc

C2_Witness ==
  /\ pc = "done"
  /\ Len(OutputItems) = MAX_ITEMS
  /\ \E d \in Dropped : d.published_dt < doc[Len(doc)].pubDate[2]
  /\ doc[1].pubDate[2] > doc[Len(doc)].pubDate[2]

\* ---- C3 ----
\* C3: every item of the document has link = ARCHIVE_PREFIX + its own
\* original link and guid = that original link, the link is never the raw
\* original link, and the pairing holds from collection to the written file.
C3_ArchiveLinkPairing ==
  /\ \A e \in Range(all_entries) \cup Range(selected) :
        e.archive_link = ARCHIVE_PREFIX \o e.orig_link
  /\ DocBuilt =>
        /\ Len(doc) = Len(selected)
        /\ \A i \in 1..Len(doc) :
              /\ doc[i].guid = Collected(selected[i].oid).orig_link
              /\ doc[i].link = ARCHIVE_PREFIX \o doc[i].guid
              /\ doc[i].link # doc[i].guid
  /\ pc = "done" => OutputItems = doc

C3_Witness ==
  /\ pc = "done"
  /\ Len(OutputItems) = 2
  /\ OutputItems[1].guid = "b"
  /\ OutputItems[2].guid = "a"
  /\ Len(all_entries) > MAX_ITEMS

\* ---- C4 ----
FetchReturns(f) == futures[f].state = "running" /\ futures'[f].state = "finished"

\* A failed attempt that is not the last one counts one attempt more; the
\* placeholder is returned by the RETRY_COUNT-th failed attempt only.
C4_StepRetriesThenPlaceholder ==
  \A f \in 1..Len(futures) :
     /\ futures[f].state = "running" /\ futures'[f].state = "running"
           /\ futures'[f] # futures[f]
           => /\ futures'[f].attempt = futures[f].attempt + 1
              /\ futures'[f].attempt < RETRY_COUNT
              /\ futures'[f].last_exc \in Exceptions
     /\ FetchReturns(f) /\ IsPlaceholder(futures'[f].result)
           => /\ futures[f].attempt = RETRY_COUNT - 1
              /\ \E e \in Exceptions :
                    futures'[f].result = Placeholder(selected[future_map[f]].archive_link, e)

\* A finished call has returned a value; the item of a failed fetch has the
\* placeholder as content and the fields of the dict as collected.
C4_StatePlaceholderInItem ==
  /\ \A f \in 1..Len(futures) :
        /\ futures[f].state = "running" => futures[f].attempt < RETRY_COUNT
        /\ futures[f].state = "finished" => futures[f].result # <<>>
  /\ DocBuilt =>
        \A i \in 1..Len(doc) :
           LET e == Collected(selected[i].oid)
           IN /\ doc[i].title = e.title
              /\ doc[i].link = e.archive_link
              /\ doc[i].guid = e.orig_link
              /\ doc[i].description = e.summary
              /\ doc[i].pubDate = format_rfc2822(e.published_dt)
              /\ \A f \in 1..Len(futures) :
                    future_map[f] = i /\ IsPlaceholder(futures[f].result)
                       => doc[i].content = futures[f].result

\* C4: a fetch whose attempts all fail makes exactly RETRY_COUNT attempts and
\* then returns the placeholder for its own URL instead of raising; the
\* item's content is then that placeholder and its title, link, guid,
\* description and pubDate are those of the dict as collected.
C4_FetchFailureGivesPlaceholder ==
  [][C4_StepRetriesThenPlaceholder]_vars /\ []C4_StatePlaceholderInItem

C4_Witness ==
  /\ pc = "done"
  /\ Len(OutputItems) = 2
  /\ OutputItems[1].content = Placeholder(OutputItems[1].link, "HTTPError")
  /\ OutputItems[2].content[1] = "article"
  /\ OutputItems[1].title = "Untitled"

\* ---- C5 ----
\* C5: no collected, selected or written item has an absent or empty link,
\* and while the feeds are read the number of collected entries equals the
\* number of linked entries passed so far: a skipped entry takes no other
\* entry with it, and the loop goes on to the entries after it.
C5_LinklessSkippedOnly ==
  /\ \A e \in Range(all_entries) \cup Range(selected) : ~Falsy(e.orig_link)
  /\ \A i \in 1..Len(doc) : ~Falsy(doc[i].guid)
  /\ Collecting =>
        /\ Len(all_entries) = Len(Linked(Processed))
        /\ pc = "entries" => entry_idx <= Len(feed) + 1 /\ feed = feeds[Len(feeds)].entries

C5_Witness ==
  /\ pc = "entries"
  /\ entry_idx = 4
  /\ ~Falsy(feed[1].link)
  /\ feed[2].link = None
  /\ ~Falsy(feed[3].link)
  /\ Len(all_entries) = 2

\* ---- C6 ----
\* C6: every feed of RSS_URLS is read whether or not the feeds before it
\* failed to parse, and the collected entries are, in order, the linked
\* entries of the feeds that parsed.
C6_FailedFeedSkippedOnly ==
  Collecting =>
     /\ Len(feeds) = (IF pc = "entries" THEN feed_idx ELSE feed_idx - 1)
     /\ feed_idx <= NumFeeds + 1
     /\ \A i \in 1..Len(feeds) : ~feeds[i].ok => feeds[i].entries = <<>>
     /\ LET want == Linked(Processed)
        IN /\ Len(all_entries) = Len(want)
           /\ \A k \in 1..Len(want) :
                 /\ all_entries[k].orig_link = want[k].link
                 /\ all_entries[k].title = GetAttr(want[k].title, "Untitled")
                 /\ all_entries[k].oid = k

C6_Witness ==
  /\ pc = "parse"
  /\ feed_idx = NumFeeds + 1
  /\ ~feeds[1].ok
  /\ feeds[NumFeeds].ok
  /\ Len(all_entries) >= 2

\* ---- C7 ----
\* C7: every run ends, and it ends with the document written unless the
\* write itself failed: no step before the write ends the run, and the
\* written document has one item for each selected entry.
C7_RunEndsWithOutput ==
  /\ <>(pc \in {"done", "failed"})
  /\ [][pc' = "failed" => pc \in {"toxml", "open", "write"}]_vars
  /\ [](DocBuilt => /\ Len(doc) = Len(selected)
                    /\ \A f \in 1..Len(futures) : futures[f].state = "finished")
  /\ [](pc = "done" => output_file = ToXml(doc) /\ Len(OutputItems) = Len(selected))

C7_Witness ==
  /\ pc = "done"
  /\ Len(OutputItems) = MAX_ITEMS
  /\ \A i \in 1..Len(OutputItems) : IsPlaceholder(OutputItems[i].content)
  /\ Len(all_entries) > MAX_ITEMS

\* ---- C8 ----
\* C8: when the write fails, OUTPUT_FILE holds its previous content or the
\* complete new document.
C8_WriteAllOrNothing ==
  pc = "failed" => output_file = PreviousContent \/ output_file = ToXml(doc)

\* ---- C9 ----
\* After the slice, a step changes an item only by storing in its full_html
\* the result of the future submitted for it, and changes no other item.
C9_StepOwnItemOnly ==
  \A i \in 1..Len(selected) :
     (~Collecting /\ Len(selected') = Len(selected) /\ selected'[i] # selected[i]) =>
        /\ selected'[i] = [selected[i] EXCEPT !.full_html = selected'[i].full_html]
        /\ \E f \in 1..Len(futures) :
              /\ future_map[f] = i
              /\ ~futures[f].yielded /\ futures'[f].yielded
              /\ selected'[i].full_html = futures[f].result
              /\ \A j \in 1..Len(selected) : j # i => selected'[j] = selected[j]

\* Each future belongs to one item and fetches that item's archive_link; when
\* the pool is done every item holds the result for its own archive_link.
C9_StateOwnResult ==
  /\ Len(future_map) = Len(futures)
  /\ \A f \in 1..Len(futures) :
        /\ future_map[f] \in 1..Len(selected)
        /\ futures[f].url = selected[future_map[f]].archive_link
        /\ futures[f].state = "finished" => futures[f].result[2] = futures[f].url
        /\ futures[f].yielded => selected[future_map[f]].full_html = futures[f].result
  /\ \A f, g \in 1..Len(futures) : f # g => future_map[f] # future_map[g]
  /\ PoolDone =>
        /\ Len(futures) = Len(selected)
        /\ \A i \in 1..Len(selected) :
              /\ selected[i].full_html # <<>>
              /\ selected[i].full_html[2] = selected[i].archive_link
  /\ DocBuilt =>
        \A i \in 1..Len(doc) : /\ doc[i].content = selected[i].full_html
                               /\ doc[i].content[2] = doc[i].link

\* C9: a pass of the as_completed loop changes only the full_html of the item
\* its future was submitted for; when the pool is done every selected item
\* holds the result of the future submitted for its own archive_link, and
\* the writer puts that result in the item's content.
C9_ResultsReattachedToOwnItem ==
  [][C9_StepOwnItemOnly]_vars /\ []C9_StateOwnResult

C9_Witness ==
  /\ pc = "as_completed"
  /\ Len(selected) = 2
  /\ selected[1].orig_link # selected[2].orig_link
  /\ selected[1].full_html = <<>>
  /\ IsPlaceholder(selected[2].full_html)
  /\ futures[1].state = "finished"
  /\ futures[1].result[1] = "body"

\* ---- C10 ----
\* C10: after the sort, entries with equal published_dt are in the order in
\* which they were collected, in all_entries, in selected and in the
\* document, and of such entries the slice keeps the earlier collected.
C10_StableSort ==
  ~Collecting =>
     /\ \A i, j \in 1..Len(all_entries) :
           i < j /\ all_entries[i].published_dt = all_entries[j].published_dt
              => all_entries[i].oid < all_entries[j].oid
     /\ \A i, j \in 1..Len(selected) :
           i < j /\ selected[i].published_dt = selected[j].published_dt
              => selected[i].oid < selected[j].oid
     /\ \A d \in Dropped : \A i \in 1..Len(selected) :
           d.published_dt = selected[i].published_dt => selected[i].oid < d.oid
     /\ { e.oid : e \in Range(all_entries) } = 1..Len(all_entries)
     /\ DocBuilt =>
           \A i \in 1..Len(doc) : doc[i].guid = Collected(selected[i].oid).orig_link

C10_Witness ==
  /\ pc = "done"
  /\ Len(all_entries) = 3
  /\ \A e \in Range(all_entries) : e.published_dt = 2
  /\ all_entries[1].orig_link = "b"
  /\ all_entries[3].orig_link = "a"
  /\ OutputItems[1].guid = "b"
  /\ OutputItems[2].guid = "a"
====
